---- MODULE Spec2Model ----
(***************************************************************************)
(* A model of bot.py: the page capture pipeline (fetch_page_assets,        *)
(* inline_stylesheets, inline_images, fetch_text_asset,                    *)
(* fetch_binary_asset), the conversational context manager                 *)
(* (_ensure_system_message, _base_minimax_messages,                        *)
(* _store_minimax_exchange, ask_minimax) and the handler that drives them  *)
(* (handle_text, send_assets, send_ai_answer).                             *)
(*                                                                         *)
(* One session is modelled; python-telegram-bot runs the handlers of one   *)
(* application one at a time, so a single program counter pc says where    *)
(* the running handle_text call is.  Every await whose outcome the         *)
(* environment decides (page fetch, asset fetch, model call) is one step.  *)
(* Calls to the chat transport are taken to succeed and are recorded in    *)
(* out.  Leading underscores of Python names are dropped.                  *)
(***************************************************************************)
EXTENDS Integers, Sequences, FiniteSets, TLC

\* ------------------------------------------------------------ constants
MAX_ASSET_SIZE == 8 * 1024 * 1024
MAX_MINIMAX_HISTORY == 8
SYSTEM_PROMPT == "SYSTEM_PROMPT"

\* Python's None where a string is expected (alt text, OCR text, headers).
None == "<None>"

\* Sizes the environment uses around the ceiling.
NineMiB == 9 * 1024 * 1024
SmallSize == 1024

\* The most exchanges recorded after one capture.
MaxAsks == 5

\* ------------------------------------------------------------ strings
\* A string whose characters matter is a sequence of one-character strings.
Space == " "

DigitChars == <<"0", "1", "2", "3", "4", "5", "6", "7", "8", "9">>

IsDigit(c) == \E i \in 1..10 : DigitChars[i] = c

DigitVal(c) == (CHOOSE i \in 1..10 : DigitChars[i] = c) - 1

\* The decimal text a server writes for a byte count.
RECURSIVE Dec(_)
Dec(n) == IF n < 10 THEN <<DigitChars[n + 1]>>
          ELSE Dec(n \div 10) \o <<DigitChars[(n % 10) + 1]>>

\* str.strip(): leading and trailing whitespace removed.
RECURSIVE lstrip(_)
lstrip(s) == IF Len(s) > 0 /\ Head(s) = Space THEN lstrip(Tail(s)) ELSE s

RECURSIVE rstrip(_)
rstrip(s) == IF Len(s) > 0 /\ s[Len(s)] = Space
             THEN rstrip(SubSeq(s, 1, Len(s) - 1)) ELSE s

strip(s) == rstrip(lstrip(s))

RECURSIVE DigitsValue(_)
DigitsValue(s) == IF Len(s) = 0 THEN 0
                  ELSE 10 * DigitsValue(SubSeq(s, 1, Len(s) - 1)) + DigitVal(s[Len(s)])

\* int(text): [ok, value]; ok = FALSE stands for ValueError.  Surrounding
\* whitespace and one sign are accepted, as Python does.
int(text) ==
    LET t == strip(text)
        signed == Len(t) > 0 /\ t[1] \in {"+", "-"}
        digits == IF signed THEN Tail(t) ELSE t
        ok == Len(digits) > 0 /\ \A i \in 1..Len(digits) : IsDigit(digits[i])
    IN IF ~ok THEN [ok |-> FALSE, value |-> 0]
       ELSE [ok |-> TRUE,
             value |-> IF signed /\ t[1] = "-" THEN 0 - DigitsValue(digits)
                       ELSE DigitsValue(digits)]

\* ------------------------------------------------------------ asset fetcher
\* An HTTP exchange as httpx's client.get sees it.  status "network_error"
\* is a transport failure (get raises); otherwise the response carries a
\* status code, an optional Content-Length header (NoHeader = header absent)
\* and a body of `size` bytes.
NoHeader == <<None>>

Response(status, content_length, size) ==
    [status |-> status, content_length |-> content_length, size |-> size]

NetworkError == Response("network_error", NoHeader, 0)

\* response.raise_for_status()
raise_for_status(resp) == resp.status # "200"

\* The declared-size check: header present and non-empty, parseable, and
\* strictly above the ceiling.
declared_too_large_mutant(resp) ==
    LET content_length == resp.content_length
    IN /\ content_length # NoHeader
       /\ Len(content_length) > 0
       /\ LET length == int(content_length)
          IN length.ok /\ length.value >= MAX_ASSET_SIZE

declared_too_large(resp) ==
    LET content_length == resp.content_length
    IN /\ content_length # NoHeader
       /\ Len(content_length) > 0
       /\ LET length == int(content_length)
          IN length.ok /\ length.value > MAX_ASSET_SIZE

\* The received-size check: len(response.content) > MAX_ASSET_SIZE.
received_too_large(resp) == resp.size > MAX_ASSET_SIZE

FetchResult(ok, error, size) == [ok |-> ok, error |-> error, size |-> size]

\* fetch_text_asset / fetch_binary_asset as functions of the exchange: the
\* checks in the order the code makes them.
fetch_text_asset(resp) ==
    IF resp.status = "network_error" THEN FetchResult(FALSE, "network", 0)
    ELSE IF raise_for_status(resp) THEN FetchResult(FALSE, "http_status", 0)
    ELSE IF declared_too_large(resp) THEN FetchResult(FALSE, "too_large", 0)
    ELSE IF received_too_large(resp) THEN FetchResult(FALSE, "too_large", 0)
    ELSE FetchResult(TRUE, "", resp.size)

fetch_binary_asset(resp) ==
    IF resp.status = "network_error" THEN FetchResult(FALSE, "network", 0)
    ELSE IF raise_for_status(resp) THEN FetchResult(FALSE, "http_status", 0)
    ELSE IF declared_too_large(resp) THEN FetchResult(FALSE, "too_large", 0)
    ELSE IF received_too_large(resp) THEN FetchResult(FALSE, "too_large", 0)
    ELSE FetchResult(TRUE, "", resp.size)

\* ------------------------------------------------------------ documents
\* An absolute URL is a base (the directory it lives in) and a name; a
\* reference found in markup is absent, a data: URI, or a relative
\* reference, possibly written with a leading "./".
Url(base, name) == [base |-> base, name |-> name]

Ref(kind, dot, name) == [kind |-> kind, dot |-> dot, name |-> name]

NoRef == Ref("none", FALSE, "")

\* urljoin(base_url, ref) for a relative reference: "./x" and "x" resolve
\* to the same absolute URL under the base.
urljoin(base_url, ref) == Url(base_url, ref.name)

\* A node of the parsed tree: a <link>, an <img> or (after inlining) a
\* <style>.  data_source is <<>> while the attribute is absent.
Node(tag, rel, ref, alt, srcset) ==
    [tag |-> tag, rel |-> rel, ref |-> ref, alt |-> alt, srcset |-> srcset,
     data_source |-> <<>>, data_encoding |-> None]

\* r.lower() on the rel tokens the pages use.
lower(r) == IF r = "StyleSheet" THEN "stylesheet" ELSE r

\* The pages the environment serves: the URL asked for, the URL the
\* redirects end at, the page's own text and its link and img elements.
PageIds == {1, 2}

Pages ==
    <<[url |-> "http://example.com/a",
       final_url |-> "https://example.com/a/",
       body |-> "Hello",
       nodes |-> <<Node("link", "stylesheet", Ref("rel", FALSE, "s.css"), None, FALSE),
                   Node("link", "StyleSheet", Ref("rel", TRUE, "s.css"), None, FALSE),
                   Node("img", "", Ref("rel", FALSE, "a.png"), "logo", TRUE),
                   Node("img", "", Ref("rel", TRUE, "a.png"), None, FALSE),
                   Node("img", "", Ref("data", FALSE, "inline"), None, FALSE)>>],
      [url |-> "https://example.org/b",
       final_url |-> "https://example.org/b",
       body |-> "",
       nodes |-> <<Node("link", "icon", Ref("rel", FALSE, "favicon.ico"), None, FALSE),
                   Node("link", "stylesheet", NoRef, None, FALSE),
                   Node("img", "", NoRef, "", FALSE),
                   Node("img", "", Ref("rel", FALSE, "c.png"), "", TRUE)>>]>>

\* What the OCR engine reads in each image when it is installed.
OcrReading(image_url) == IF image_url.name = "a.png" THEN "SALE" ELSE ""

\* The exchanges the environment may answer an asset request with.
AssetResponses ==
    {NetworkError,
     Response("404", NoHeader, SmallSize),
     Response("200", NoHeader, SmallSize),
     Response("200", Dec(NineMiB), NineMiB)}

\* The exchanges the environment may answer the request for page p with;
\* the second page may also come as a 9 MiB body.
PageResponses(p) ==
    {NetworkError,
     Response("404", NoHeader, SmallSize),
     Response("200", NoHeader, SmallSize)}
    \cup (IF p = 2 THEN {Response("200", Dec(NineMiB), NineMiB)} ELSE {})

\* soup.find_all(tag): the position of the next tag element at or after i,
\* Len(nodes) + 1 when there is none.
next_tag(nodes, tag, i) ==
    IF \E j \in i..Len(nodes) : nodes[j].tag = tag
    THEN CHOOSE j \in i..Len(nodes) :
            /\ nodes[j].tag = tag
            /\ \A k \in i..(j - 1) : nodes[k].tag # tag
    ELSE Len(nodes) + 1

\* A dict is a set of [key, value] entries with distinct keys.
dict_has(d, k) == \E e \in d : e.key = k

dict_get(d, k) == (CHOOSE e \in d : e.key = k).value

dict_put(d, k, v) == {e \in d : e.key # k} \cup {[key |-> k, value |-> v]}

\* Python truthiness of an optional string.
truthy(s) == s # None /\ s # ""

\* ------------------------------------------------------------ image annotator
ImageSummary(source_url, alt_text, ocr_text, description) ==
    [source_url |-> source_url, alt_text |-> alt_text, ocr_text |-> ocr_text,
     description |-> description]

\* build_image_description: the labelled parts, alt text before OCR text,
\* or the fixed fallback sentence.
build_image_description(alt_text, ocr_text) ==
    LET parts == (IF truthy(alt_text) THEN <<<<"alt", alt_text>>>> ELSE <<>>)
                 \o (IF truthy(ocr_text) THEN <<<<"ocr", ocr_text>>>> ELSE <<>>)
    IN IF parts = <<>> THEN <<<<"unavailable", "">>>> ELSE parts

\* extract_text_from_image
extract_text_from_image(ocr_available, image_url) ==
    IF ~ocr_available THEN "" ELSE OcrReading(image_url)

\* format_image_summaries_for_text: "" (here notes = FALSE) without images,
\* else one entry per summary and the OCR note when OCR is missing.
format_image_summaries_for_text(ocr_available, images) ==
    IF images = <<>> THEN [notes |-> FALSE, entries |-> <<>>, ocr_note |-> FALSE]
    ELSE [notes |-> TRUE, entries |-> images, ocr_note |-> ~ocr_available]

\* The rendering for the model without the OCR note.
format_image_summaries_for_ai_mutant(ocr_available, images) ==
    IF images = <<>> THEN [no_images |-> TRUE, entries |-> <<>>, ocr_note |-> FALSE]
    ELSE [no_images |-> FALSE, entries |-> images, ocr_note |-> FALSE]

\* format_image_summaries_for_ai: the fixed sentence (no_images) without
\* images, else one entry per summary and the OCR note when OCR is missing.
format_image_summaries_for_ai(ocr_available, images) ==
    IF images = <<>> THEN [no_images |-> TRUE, entries |-> <<>>, ocr_note |-> FALSE]
    ELSE [no_images |-> FALSE, entries |-> images, ocr_note |-> ~ocr_available]

\* ------------------------------------------------------------ context manager
\* A message: page is <<>> except in a user message, where it holds the
\* page context the content was built from; qid numbers the question the
\* message asks or answers; text is the reply text of an assistant message.
Message(role, page, qid, text) ==
    [role |-> role, page |-> page, qid |-> qid, text |-> text]

\* The page context ask_minimax puts into the user message.
UserContext(ocr_available, assets) ==
    [final_url |-> assets.final_url,
     text_context |-> assets.text,
     html_context |-> assets.html,
     image_context |-> format_image_summaries_for_ai(ocr_available, assets.images)]

SystemMessage == Message("system", <<>>, 0, <<SYSTEM_PROMPT>>)

ensure_system_message(messages) ==
    IF Len(messages) > 0 /\ messages[1].role = "system" THEN messages
    ELSE <<SystemMessage>> \o messages

\* s[-n:] for n >= 1
last_n(s, n) == IF Len(s) <= n THEN s ELSE SubSeq(s, Len(s) - n + 1, Len(s))

\* user_state is the session's dict: each key holds <<>> while absent and
\* <<value>> while set.
\* _base_minimax_messages: the messages to extend, and whether the list
\* returned is the stored list object itself (shared) or a new one.
base_minimax_messages_mutant(user_state) ==
    LET cached == user_state.minimax_messages
    IN IF cached # <<>> /\ Len(cached[1]) > 0
       THEN [messages |-> ensure_system_message(cached[1]),
             shared |-> cached[1][1].role = "system"]
       ELSE [messages |-> <<SystemMessage>>, shared |-> FALSE]

\* No system message before the first question.
base_minimax_messages_unseeded(user_state) ==
    LET cached == user_state.minimax_messages
    IN IF cached # <<>> /\ Len(cached[1]) > 0
       THEN [messages |-> ensure_system_message(cached[1]), shared |-> FALSE]
       ELSE [messages |-> <<>>, shared |-> FALSE]

base_minimax_messages(user_state) ==
    LET cached == user_state.minimax_messages
    IN IF cached # <<>> /\ Len(cached[1]) > 0
       THEN [messages |-> ensure_system_message(cached[1]), shared |-> FALSE]
       ELSE [messages |-> <<SystemMessage>>, shared |-> FALSE]

\* _store_minimax_exchange: the session dict after the exchange is stored.
store_minimax_exchange_mutant(user_state, user_message, assistant_message) ==
    LET cached == user_state.minimax_messages
        history == ensure_system_message(IF cached # <<>> THEN cached[1] ELSE <<>>)
                   \o <<user_message, assistant_message>>
        recent == Tail(history)
        trimmed == IF Len(history) > MAX_MINIMAX_HISTORY
                   THEN last_n(recent, MAX_MINIMAX_HISTORY - 1)
                   ELSE history
    IN [user_state EXCEPT !.minimax_messages = <<trimmed>>]

\* The oldest messages kept instead of the most recent.
store_minimax_exchange_oldest(user_state, user_message, assistant_message) ==
    LET cached == user_state.minimax_messages
        history == ensure_system_message(IF cached # <<>> THEN cached[1] ELSE <<>>)
                   \o <<user_message, assistant_message>>
        trimmed == IF Len(history) > MAX_MINIMAX_HISTORY
                   THEN SubSeq(history, 1, MAX_MINIMAX_HISTORY)
                   ELSE history
    IN [user_state EXCEPT !.minimax_messages = <<trimmed>>]

\* The assistant message stored before the user message.
store_minimax_exchange_swapped(user_state, user_message, assistant_message) ==
    LET cached == user_state.minimax_messages
        history == ensure_system_message(IF cached # <<>> THEN cached[1] ELSE <<>>)
                   \o <<assistant_message, user_message>>
        recent == Tail(history)
        trimmed == IF Len(history) > MAX_MINIMAX_HISTORY
                   THEN <<history[1]>> \o last_n(recent, MAX_MINIMAX_HISTORY - 1)
                   ELSE history
    IN [user_state EXCEPT !.minimax_messages = <<trimmed>>]

store_minimax_exchange(user_state, user_message, assistant_message) ==
    LET cached == user_state.minimax_messages
        history == ensure_system_message(IF cached # <<>> THEN cached[1] ELSE <<>>)
                   \o <<user_message, assistant_message>>
        recent == Tail(history)
        trimmed == IF Len(history) > MAX_MINIMAX_HISTORY
                   THEN <<history[1]>> \o last_n(recent, MAX_MINIMAX_HISTORY - 1)
                   ELSE history
    IN [user_state EXCEPT !.minimax_messages = <<trimmed>>]

\* ------------------------------------------------------------ truncate_content
Newline == "\n"

\* The marker appended to a truncated content, one string per character;
\* Ellipsis stands for the character U+2026.
Ellipsis == "<U+2026>"

truncated_marker ==
    <<Newline, Ellipsis, "(", "t", "r", "u", "n", "c", "a", "t", "e", "d", ")", Ellipsis>>

\* The marker put before the kept characters.
truncate_content_mutant(content, limit) ==
    IF Len(content) <= limit THEN content
    ELSE truncated_marker \o SubSeq(content, 1, limit)

truncate_content(content, limit) ==
    IF Len(content) <= limit THEN content
    ELSE SubSeq(content, 1, limit) \o truncated_marker

\* ------------------------------------------------------------ output chunker
MAX_TELEGRAM_MESSAGE == 4096

\* The position of the first "\n\n" in s, 0 when there is none.
find_separator(s) ==
    IF \E i \in 1..(Len(s) - 1) : s[i] = Newline /\ s[i + 1] = Newline
    THEN CHOOSE i \in 1..(Len(s) - 1) :
            /\ s[i] = Newline /\ s[i + 1] = Newline
            /\ \A k \in 1..(i - 1) : ~(s[k] = Newline /\ s[k + 1] = Newline)
    ELSE 0

\* text.split("\n\n")
RECURSIVE str_split(_)
str_split(s) ==
    LET i == find_separator(s)
    IN IF i = 0 THEN <<s>>
       ELSE <<SubSeq(s, 1, i - 1)>> \o str_split(SubSeq(s, i + 2, Len(s)))

\* "".join(parts)
RECURSIVE join(_)
join(parts) == IF parts = <<>> THEN <<>> ELSE Head(parts) \o join(Tail(parts))

\* Slices one character longer than the limit.
RECURSIVE slices_long(_, _)
slices_long(paragraph, limit) ==
    IF Len(paragraph) = 0 THEN <<>>
    ELSE IF Len(paragraph) <= limit + 1 THEN <<paragraph>>
    ELSE <<SubSeq(paragraph, 1, limit + 1)>>
         \o slices_long(SubSeq(paragraph, limit + 2, Len(paragraph)), limit)

\* Slices that leave out the character between one slice and the next.
RECURSIVE slices_gap(_, _)
slices_gap(paragraph, limit) ==
    IF Len(paragraph) = 0 THEN <<>>
    ELSE IF Len(paragraph) <= limit THEN <<paragraph>>
    ELSE <<SubSeq(paragraph, 1, limit)>>
         \o slices_gap(SubSeq(paragraph, limit + 2, Len(paragraph)), limit)

\* [paragraph[i : i + limit] for i in range(0, len(paragraph), limit)]
RECURSIVE slices(_, _)
slices(paragraph, limit) ==
    IF Len(paragraph) = 0 THEN <<>>
    ELSE IF Len(paragraph) <= limit THEN <<paragraph>>
    ELSE <<SubSeq(paragraph, 1, limit)>>
         \o slices(SubSeq(paragraph, limit + 1, Len(paragraph)), limit)

\* The loop of split_telegram_message over the paragraphs left, with its
\* locals chunks, current (a list of strings) and current_len.
RECURSIVE split_loop(_, _, _, _, _)
split_loop(paragraphs, limit, chunks, current, current_len) ==
    IF paragraphs = <<>>
    THEN IF current # <<>> THEN Append(chunks, join(current)) ELSE chunks
    ELSE LET paragraph == Head(paragraphs)
             paragraph_with_spacing ==
                 (IF current # <<>> THEN <<Newline, Newline>> ELSE <<>>) \o paragraph
         IN IF current_len + Len(paragraph_with_spacing) <= limit
            THEN split_loop(Tail(paragraphs), limit, chunks,
                            Append(current, paragraph_with_spacing),
                            current_len + Len(paragraph_with_spacing))
            ELSE LET flushed == IF current # <<>> THEN Append(chunks, join(current))
                                ELSE chunks
                 IN IF Len(paragraph) > limit
                    THEN split_loop(Tail(paragraphs), limit,
                                    flushed \o slices(paragraph, limit), <<>>, 0)
                    ELSE split_loop(Tail(paragraphs), limit, flushed,
                                    <<paragraph>>, Len(paragraph))

split_telegram_message(text, limit) ==
    IF Len(text) <= limit THEN <<text>>
    ELSE split_loop(str_split(text), limit, <<>>, <<>>, 0)

\* ------------------------------------------------------------ state
VARIABLES
    pc,                  \* where the running handle_text call is; "idle" between calls
    frame,               \* the locals of the running call
    user_data,           \* context.user_data: last_assets and minimax_messages
    asked,               \* exchanges recorded since the last stored capture
    out,                 \* the transport calls of the current handle_text call
    request,             \* <<messages>> of the payload posted by the current call
    completion,          \* <<reply>> of the completion endpoint to that payload
    OCR_AVAILABLE,       \* whether pytesseract and PIL were importable
    OPENROUTER_API_KEY,  \* whether the environment variable is set
    fetch,               \* one fetch_text_asset / fetch_binary_asset call, step by step
    call                 \* one call of split_telegram_message or truncate_content

vars == <<pc, frame, user_data, asked, out, request, completion, OCR_AVAILABLE,
          OPENROUTER_API_KEY, fetch, call>>

session_vars == <<pc, frame, user_data, asked, out, request, completion>>

config_vars == <<OCR_AVAILABLE, OPENROUTER_API_KEY>>

NoFrame ==
    [kind |-> "none", page |-> 0, question |-> FALSE, page_size |-> 0,
     final_url |-> "", soup |-> <<>>, inlined_soup |-> <<>>, i |-> 0,
     cached_data |-> {}, cached_summaries |-> {}, summaries |-> <<>>,
     log |-> <<>>, assets |-> <<>>, user_message |-> <<>>]

NoFetch ==
    [kind |-> "none", declared |-> [form |-> "absent", n |-> 0], resp |-> NetworkError,
     pc |-> "off", received |-> 0, result |-> FetchResult(FALSE, "pending", 0)]

NoCall == [fn |-> "none"]

\* A call of the chat transport.
Event(op, what, text) == [op |-> op, what |-> what, text |-> text]

SessionInit ==
    /\ pc = "idle"
    /\ frame = NoFrame
    /\ user_data = [last_assets |-> <<>>, minimax_messages |-> <<>>]
    /\ asked = 0
    /\ out = <<>>
    /\ request = <<>>
    /\ completion = <<>>

Init ==
    /\ SessionInit
    /\ OCR_AVAILABLE \in BOOLEAN
    /\ OPENROUTER_API_KEY \in BOOLEAN
    /\ fetch = NoFetch
    /\ call = NoCall

\* ------------------------------------------------------------ handle_text
\* No message or no text: return at once.
handle_text_no_text ==
    /\ pc = "idle"
    /\ frame' = NoFrame
    /\ out' = <<>>
    /\ request' = <<>>
    /\ completion' = <<>>
    /\ UNCHANGED <<pc, user_data, asked, config_vars, fetch, call>>

\* The text holds a URL, with or without a question around it.
handle_text_url ==
    /\ pc = "idle"
    /\ \E p \in PageIds, question \in BOOLEAN :
          frame' = [NoFrame EXCEPT !.kind = "url", !.page = p, !.question = question]
    /\ out' = <<Event("reply_text", "loading", <<>>)>>
    /\ request' = <<>>
    /\ completion' = <<>>
    /\ pc' = "fetch_page"
    /\ UNCHANGED <<user_data, asked, config_vars, fetch, call>>

\* No URL and no captured page yet.
handle_text_no_page ==
    /\ pc = "idle"
    /\ user_data.last_assets = <<>>
    /\ frame' = NoFrame
    /\ out' = <<Event("reply_text", "send_link", <<>>)>>
    /\ request' = <<>>
    /\ completion' = <<>>
    /\ UNCHANGED <<pc, user_data, asked, config_vars, fetch, call>>

\* No URL, a captured page, and nothing left of the text after strip().
handle_text_blank ==
    /\ pc = "idle"
    /\ user_data.last_assets # <<>>
    /\ frame' = NoFrame
    /\ out' = <<>>
    /\ request' = <<>>
    /\ completion' = <<>>
    /\ UNCHANGED <<pc, user_data, asked, config_vars, fetch, call>>

\* No URL and a captured page: the text is a question about last_assets.
handle_text_question ==
    /\ pc = "idle"
    /\ user_data.last_assets # <<>>
    /\ asked < MaxAsks
    /\ frame' = [NoFrame EXCEPT !.kind = "text", !.question = TRUE,
                                !.assets = user_data.last_assets]
    /\ out' = <<>>
    /\ request' = <<>>
    /\ completion' = <<>>
    /\ pc' = "ask"
    /\ UNCHANGED <<user_data, asked, config_vars, fetch, call>>

\* ------------------------------------------------------------ fetch_page_assets
\* client.get(url) or raise_for_status() raises: handle_text reports it.
fetch_page_error_mutant ==
    /\ pc = "fetch_page"
    /\ \E resp \in PageResponses(frame.page) : resp.status = "network_error" \/ raise_for_status(resp)
    /\ out' = Append(out, Event("edit_text", "page_error", <<>>))
    /\ user_data' = [user_data EXCEPT !.minimax_messages = <<>>]
    /\ pc' = "idle"
    /\ frame' = NoFrame
    /\ UNCHANGED <<asked, request, completion, config_vars, fetch, call>>

fetch_page_error ==
    /\ pc = "fetch_page"
    /\ \E resp \in PageResponses(frame.page) : resp.status = "network_error" \/ raise_for_status(resp)
    /\ out' = Append(out, Event("edit_text", "page_error", <<>>))
    /\ pc' = "idle"
    /\ frame' = NoFrame
    /\ UNCHANGED <<user_data, asked, request, completion, config_vars, fetch, call>>

\* The URL asked for kept as final_url.
fetch_page_ok_mutant ==
    /\ pc = "fetch_page"
    /\ \E resp \in PageResponses(frame.page) :
          /\ resp.status # "network_error"
          /\ ~raise_for_status(resp)
          /\ frame' = [frame EXCEPT !.page_size = resp.size,
                                    !.final_url = Pages[frame.page].url,
                                    !.soup = Pages[frame.page].nodes,
                                    !.inlined_soup = Pages[frame.page].nodes,
                                    !.i = 1]
    /\ pc' = "stylesheets"
    /\ UNCHANGED <<user_data, asked, out, request, completion, config_vars, fetch, call>>

\* The page arrives: final_url is str(response.url), the URL the redirects
\* ended at, and both parse trees are built from the page.
fetch_page_ok ==
    /\ pc = "fetch_page"
    /\ \E resp \in PageResponses(frame.page) :
          /\ resp.status # "network_error"
          /\ ~raise_for_status(resp)
          /\ frame' = [frame EXCEPT !.page_size = resp.size,
                                    !.final_url = Pages[frame.page].final_url,
                                    !.soup = Pages[frame.page].nodes,
                                    !.inlined_soup = Pages[frame.page].nodes,
                                    !.i = 1]
    /\ pc' = "stylesheets"
    /\ UNCHANGED <<user_data, asked, out, request, completion, config_vars, fetch, call>>

\* A fetch the rewriter made: the URL, text or binary, the position of the
\* element it was made for, and whether it returned.
LogEntry(url, kind, at, ok) == [url |-> url, kind |-> kind, at |-> at, ok |-> ok]

\* ------------------------------------------------------------ inline_stylesheets
\* The <style> element that replaces an inlined <link>.
StyleNode(stylesheet_url) ==
    [tag |-> "style", rel |-> "", ref |-> NoRef, alt |-> None, srcset |-> FALSE,
     data_source |-> <<stylesheet_url>>, data_encoding |-> "utf-8"]

\* The <link> the loop is at (the list of links is taken before the loop).
next_link == next_tag(frame.soup, "link", frame.i)

is_stylesheet_link(node) == lower(node.rel) = "stylesheet" /\ node.ref.kind # "none"

\* rel is not stylesheet, or there is no href: continue.
inline_stylesheets_skip ==
    /\ pc = "stylesheets"
    /\ next_link <= Len(frame.soup)
    /\ ~is_stylesheet_link(frame.soup[next_link])
    /\ frame' = [frame EXCEPT !.i = next_link + 1]
    /\ UNCHANGED <<pc, user_data, asked, out, request, completion, config_vars, fetch, call>>

\* fetch_text_asset raises: the warning is logged and the loop continues.
inline_stylesheets_fail_mutant ==
    /\ pc = "stylesheets"
    /\ next_link <= Len(frame.soup)
    /\ is_stylesheet_link(frame.soup[next_link])
    /\ \E resp \in AssetResponses : ~fetch_text_asset(resp).ok
    /\ frame' = NoFrame
    /\ out' = Append(out, Event("edit_text", "page_error", <<>>))
    /\ pc' = "idle"
    /\ UNCHANGED <<user_data, asked, request, completion, config_vars, fetch, call>>

inline_stylesheets_fail ==
    /\ pc = "stylesheets"
    /\ next_link <= Len(frame.soup)
    /\ is_stylesheet_link(frame.soup[next_link])
    /\ \E resp \in AssetResponses : ~fetch_text_asset(resp).ok
    /\ LET stylesheet_url == urljoin(frame.final_url, frame.soup[next_link].ref)
       IN frame' = [frame EXCEPT
                      !.i = next_link + 1,
                      !.log = Append(@, LogEntry(stylesheet_url, "text", next_link, FALSE))]
    /\ UNCHANGED <<pc, user_data, asked, out, request, completion, config_vars, fetch, call>>

\* fetch_text_asset returns: the <link> is replaced by a <style>.
inline_stylesheets_ok ==
    /\ pc = "stylesheets"
    /\ next_link <= Len(frame.soup)
    /\ is_stylesheet_link(frame.soup[next_link])
    /\ \E resp \in AssetResponses : fetch_text_asset(resp).ok
    /\ LET stylesheet_url == urljoin(frame.final_url, frame.soup[next_link].ref)
       IN frame' = [frame EXCEPT
                      !.i = next_link + 1,
                      !.inlined_soup[next_link] = StyleNode(stylesheet_url),
                      !.log = Append(@, LogEntry(stylesheet_url, "text", next_link, TRUE))]
    /\ UNCHANGED <<pc, user_data, asked, out, request, completion, config_vars, fetch, call>>

\* No <link> is left: inline_images starts with empty caches.
inline_stylesheets_done ==
    /\ pc = "stylesheets"
    /\ next_link > Len(frame.soup)
    /\ frame' = [frame EXCEPT !.i = 1, !.cached_data = {}, !.cached_summaries = {},
                              !.summaries = <<>>]
    /\ pc' = "images"
    /\ UNCHANGED <<user_data, asked, out, request, completion, config_vars, fetch, call>>

\* ------------------------------------------------------------ inline_images
next_img == next_tag(frame.inlined_soup, "img", frame.i)

has_image_src(node) == node.ref.kind = "rel"

\* The data: URI built from the bytes fetched from image_url.
DataUri(image_url) == Ref("data", FALSE, image_url.name)

\* Lines 421-443: the summary of this <img> is appended and the element is
\* rewritten.  cached_summary is <<>> for None.
inline_image_element(fr, j, image_url, data_uri, cached_summary) ==
    LET img == fr.inlined_soup[j]
        summary == IF cached_summary = <<>>
                   THEN ImageSummary(image_url, img.alt, None,
                                     build_image_description(img.alt, ""))
                   ELSE cached_summary[1]
        alt_text == IF truthy(img.alt) THEN img.alt ELSE summary.alt_text
        ocr_text == IF truthy(summary.ocr_text) THEN summary.ocr_text ELSE ""
        summary_for_instance ==
            ImageSummary(image_url, alt_text, summary.ocr_text,
                         build_image_description(alt_text, ocr_text))
    IN [fr EXCEPT !.i = j + 1,
                  !.summaries = Append(@, summary_for_instance),
                  !.inlined_soup[j] = [img EXCEPT !.ref = data_uri,
                                                  !.srcset = FALSE,
                                                  !.data_source = <<image_url>>]]

\* No src, or a src that is already a data: URI: continue.
inline_images_skip ==
    /\ pc = "images"
    /\ next_img <= Len(frame.inlined_soup)
    /\ ~has_image_src(frame.inlined_soup[next_img])
    /\ frame' = [frame EXCEPT !.i = next_img + 1]
    /\ UNCHANGED <<pc, user_data, asked, out, request, completion, config_vars, fetch, call>>

\* No summary appended for a URL that is in cached_data.
inline_images_cached_mutant ==
    /\ pc = "images"
    /\ next_img <= Len(frame.inlined_soup)
    /\ has_image_src(frame.inlined_soup[next_img])
    /\ LET image_url == urljoin(frame.final_url, frame.inlined_soup[next_img].ref)
           cached_summary == IF dict_has(frame.cached_summaries, image_url)
                             THEN <<dict_get(frame.cached_summaries, image_url)>>
                             ELSE <<>>
       IN /\ dict_has(frame.cached_data, image_url)
          /\ frame' = [inline_image_element(frame, next_img, image_url,
                                            dict_get(frame.cached_data, image_url),
                                            cached_summary)
                          EXCEPT !.summaries = frame.summaries]
    /\ UNCHANGED <<pc, user_data, asked, out, request, completion, config_vars, fetch, call>>

\* The URL is in cached_data: no fetch.
inline_images_cached ==
    /\ pc = "images"
    /\ next_img <= Len(frame.inlined_soup)
    /\ has_image_src(frame.inlined_soup[next_img])
    /\ LET image_url == urljoin(frame.final_url, frame.inlined_soup[next_img].ref)
           cached_summary == IF dict_has(frame.cached_summaries, image_url)
                             THEN <<dict_get(frame.cached_summaries, image_url)>>
                             ELSE <<>>
       IN /\ dict_has(frame.cached_data, image_url)
          /\ frame' = inline_image_element(frame, next_img, image_url,
                                           dict_get(frame.cached_data, image_url),
                                           cached_summary)
    /\ UNCHANGED <<pc, user_data, asked, out, request, completion, config_vars, fetch, call>>

\* The URL is not cached and fetch_binary_asset raises: continue.
inline_images_fail ==
    /\ pc = "images"
    /\ next_img <= Len(frame.inlined_soup)
    /\ has_image_src(frame.inlined_soup[next_img])
    /\ LET image_url == urljoin(frame.final_url, frame.inlined_soup[next_img].ref)
       IN /\ ~dict_has(frame.cached_data, image_url)
          /\ \E resp \in AssetResponses : ~fetch_binary_asset(resp).ok
          /\ frame' = [frame EXCEPT
                         !.i = next_img + 1,
                         !.log = Append(@, LogEntry(image_url, "binary", next_img, FALSE))]
    /\ UNCHANGED <<pc, user_data, asked, out, request, completion, config_vars, fetch, call>>

\* The URL is not cached and fetch_binary_asset returns: the data URI and
\* the summary are cached, then the element is rewritten.
inline_images_fetched ==
    /\ pc = "images"
    /\ next_img <= Len(frame.inlined_soup)
    /\ has_image_src(frame.inlined_soup[next_img])
    /\ LET img == frame.inlined_soup[next_img]
           image_url == urljoin(frame.final_url, img.ref)
           data_uri == DataUri(image_url)
           ocr_text == extract_text_from_image(OCR_AVAILABLE, image_url)
           cached_summary ==
               ImageSummary(image_url, img.alt,
                            IF truthy(ocr_text) THEN ocr_text ELSE None,
                            build_image_description(img.alt, ocr_text))
           fetched ==
               [frame EXCEPT
                  !.cached_data = dict_put(@, image_url, data_uri),
                  !.cached_summaries = dict_put(@, image_url, cached_summary),
                  !.log = Append(@, LogEntry(image_url, "binary", next_img, TRUE))]
       IN /\ ~dict_has(frame.cached_data, image_url)
          /\ \E resp \in AssetResponses : fetch_binary_asset(resp).ok
          /\ frame' = inline_image_element(fetched, next_img, image_url, data_uri,
                                           <<cached_summary>>)
    /\ UNCHANGED <<pc, user_data, asked, out, request, completion, config_vars, fetch, call>>

\* ------------------------------------------------------------ PageAssets
PageAssets(html, text, final_url, images) ==
    [html |-> html, text |-> text, final_url |-> final_url, images |-> images]

\* No <img> is left: the charset is ensured, both files are rendered and
\* fetch_page_assets returns.
fetch_page_assets_return ==
    /\ pc = "images"
    /\ next_img > Len(frame.inlined_soup)
    /\ LET html_output == [source |-> frame.final_url, charset |-> "utf-8",
                           nodes |-> frame.inlined_soup]
           text_output == [source |-> frame.final_url,
                           body |-> Pages[frame.page].body,
                           image_notes |-> format_image_summaries_for_text(
                                               OCR_AVAILABLE, frame.summaries)]
       IN frame' = [frame EXCEPT
                      !.assets = <<PageAssets(html_output, text_output,
                                              frame.final_url, frame.summaries)>>]
    /\ pc' = "deliver"
    /\ UNCHANGED <<user_data, asked, out, request, completion, config_vars, fetch, call>>

\* handle_text, lines 115-126: the status message is deleted, send_assets
\* sends both files, the capture is stored and the history is dropped.
send_assets_events ==
    <<Event("delete", "loading", <<>>),
      Event("reply_document", "page.html", <<>>),
      Event("reply_document", "page.txt", <<>>)>>
    \o (IF OCR_AVAILABLE THEN <<>> ELSE <<Event("reply_text", "ocr_warning", <<>>)>>)

handle_text_deliver_mutant ==
    /\ pc = "deliver"
    /\ user_data' = [user_data EXCEPT !.last_assets = frame.assets]
    /\ asked' = 0
    /\ IF frame.question
       THEN /\ out' = out \o send_assets_events
            /\ pc' = "ask"
            /\ frame' = frame
       ELSE /\ out' = out \o send_assets_events
                      \o <<Event("reply_text", "processed", <<>>)>>
            /\ pc' = "idle"
            /\ frame' = NoFrame
    /\ UNCHANGED <<request, completion, config_vars, fetch, call>>

handle_text_deliver ==
    /\ pc = "deliver"
    /\ user_data' = [last_assets |-> frame.assets, minimax_messages |-> <<>>]
    /\ asked' = 0
    /\ IF frame.question
       THEN /\ out' = out \o send_assets_events
            /\ pc' = "ask"
            /\ frame' = frame
       ELSE /\ out' = out \o send_assets_events
                      \o <<Event("reply_text", "processed", <<>>)>>
            /\ pc' = "idle"
            /\ frame' = NoFrame
    /\ UNCHANGED <<request, completion, config_vars, fetch, call>>

\* ------------------------------------------------------------ send_ai_answer
\* OPENROUTER_API_KEY is not set: the user is told and nothing is asked.
send_ai_answer_no_key ==
    /\ pc = "ask"
    /\ ~OPENROUTER_API_KEY
    /\ out' = Append(out, Event("reply_text", "ai_unavailable", <<>>))
    /\ pc' = "idle"
    /\ frame' = NoFrame
    /\ UNCHANGED <<user_data, asked, request, completion, config_vars, fetch, call>>

\* ask_minimax, lines 582-612: the request is built and posted.  Appending
\* to a list shared with the session would change the stored history.
ask_minimax_post ==
    /\ pc = "ask"
    /\ OPENROUTER_API_KEY
    /\ LET base == base_minimax_messages(user_data)
           user_message == Message("user",
                                   <<UserContext(OCR_AVAILABLE, frame.assets[1])>>,
                                   asked + 1, <<>>)
           messages == Append(base.messages, user_message)
       IN /\ request' = <<messages>>
          /\ frame' = [frame EXCEPT !.user_message = <<user_message>>]
          /\ user_data' = IF base.shared
                          THEN [user_data EXCEPT !.minimax_messages = <<messages>>]
                          ELSE user_data
    /\ out' = Append(out, Event("reply_text", "asking", <<>>))
    /\ pc' = "post"
    /\ UNCHANGED <<asked, completion, config_vars, fetch, call>>

\* What the completion endpoint may answer to question qid: a transport
\* error, an HTTP error status, or a body whose message content is missing,
\* a string or a list of parts.  A string of whitespace alone is answered
\* to the first question after a capture only, which keeps the histories
\* to explore few.
ModelReply(status, ctype, parts) == [status |-> status, ctype |-> ctype, parts |-> parts]

ModelReplies(qid) ==
    {ModelReply("network_error", "missing", <<>>),
     ModelReply("http_error", "missing", <<>>),
     ModelReply("ok", "missing", <<>>),
     ModelReply("ok", "str", <<<<>>>>),
     ModelReply("ok", "str", <<<<Space, "A", Space>>>>),
     ModelReply("ok", "list", <<>>),
     ModelReply("ok", "list", <<<<"A">>, <<>>>>)}
    \cup (IF qid = 1 THEN {ModelReply("ok", "str", <<<<Space>>>>)} ELSE {})

\* Lines 617-619: the content as a string, joined when it is a list.
\* has = FALSE stands for None.
model_content(reply) ==
    IF reply.ctype = "list" THEN [has |-> TRUE, text |-> join(reply.parts)]
    ELSE IF reply.ctype = "str" THEN [has |-> TRUE, text |-> reply.parts[1]]
    ELSE [has |-> FALSE, text |-> <<>>]

\* `content is None`
content_is_empty_mutant(reply) == ~model_content(reply).has

\* `not content`
content_is_empty(reply) == ~model_content(reply).has \/ model_content(reply).text = <<>>

\* The post or raise_for_status raises: send_ai_answer reports it.
ask_minimax_error ==
    /\ pc = "post"
    /\ \E reply \in ModelReplies(frame.user_message[1].qid) :
          /\ reply.status # "ok"
          /\ completion' = <<reply>>
    /\ out' = Append(out, Event("edit_text", "model_error", <<>>))
    /\ pc' = "idle"
    /\ frame' = NoFrame
    /\ UNCHANGED <<user_data, asked, request, config_vars, fetch, call>>

\* The content is empty: RuntimeError, reported the same way.
ask_minimax_empty ==
    /\ pc = "post"
    /\ \E reply \in ModelReplies(frame.user_message[1].qid) :
          /\ reply.status = "ok"
          /\ content_is_empty(reply)
          /\ completion' = <<reply>>
    /\ out' = Append(out, Event("edit_text", "model_error", <<>>))
    /\ pc' = "idle"
    /\ frame' = NoFrame
    /\ UNCHANGED <<user_data, asked, request, config_vars, fetch, call>>

\* The transport calls that deliver the answer: the first part edits the
\* status message (or is sent anew after BadRequest), the rest are replies.
answer_events(parts, bad_request) ==
    <<Event(IF bad_request THEN "reply_text" ELSE "edit_text", "answer", parts[1])>>
    \o [k \in 1..(Len(parts) - 1) |-> Event("reply_text", "answer", parts[k + 1])]

\* The content is not empty: the exchange is stored and the answer is
\* split and delivered.
ask_minimax_answer ==
    /\ pc = "post"
    /\ \E reply \in ModelReplies(frame.user_message[1].qid), bad_request \in BOOLEAN :
          /\ reply.status = "ok"
          /\ ~content_is_empty(reply)
          /\ LET assistant_message ==
                     Message("assistant", <<>>, frame.user_message[1].qid,
                             strip(model_content(reply).text))
                 answer == assistant_message.text
                 parts == split_telegram_message(answer, MAX_TELEGRAM_MESSAGE)
             IN /\ user_data' = store_minimax_exchange(user_data, frame.user_message[1],
                                                       assistant_message)
                /\ out' = out \o answer_events(parts, bad_request)
                /\ completion' = <<reply>>
    /\ asked' = asked + 1
    /\ pc' = "idle"
    /\ frame' = NoFrame
    /\ UNCHANGED <<request, config_vars, fetch, call>>

\* ------------------------------------------------------------ one fetch, step by step
\* The Content-Length a server declares: absent, empty, not a number, the
\* decimal text of n, that text after a space or after "+", or -n.
FetchSizes == {0, MAX_ASSET_SIZE - 1, MAX_ASSET_SIZE, MAX_ASSET_SIZE + 1, NineMiB}

Declarations ==
    {[form |-> f, n |-> 0] : f \in {"absent", "empty", "garbage"}}
    \cup {[form |-> f, n |-> n] : f \in {"number", "padded", "plus"}, n \in FetchSizes}
    \cup {[form |-> "minus", n |-> NineMiB]}

header_text(declared) ==
    CASE declared.form = "absent" -> NoHeader
      [] declared.form = "empty" -> <<>>
      [] declared.form = "garbage" -> <<"8", "M", "B">>
      [] declared.form = "number" -> Dec(declared.n)
      [] declared.form = "padded" -> <<Space>> \o Dec(declared.n)
      [] declared.form = "plus" -> <<"+">> \o Dec(declared.n)
      [] declared.form = "minus" -> <<"-">> \o Dec(declared.n)

FetchInit ==
    /\ SessionInit
    /\ OCR_AVAILABLE = TRUE
    /\ OPENROUTER_API_KEY = TRUE
    /\ \E kind \in {"text", "binary"}, declared \in Declarations,
          status \in {"network_error", "200", "404"}, size \in FetchSizes :
          fetch = [kind |-> kind, declared |-> declared,
                   resp |-> IF status = "network_error" THEN NetworkError
                            ELSE Response(status, header_text(declared), size),
                   pc |-> "get", received |-> 0,
                   result |-> FetchResult(FALSE, "pending", 0)]
    /\ call = NoCall

\* response = await client.get(url): it raises on a transport failure, and
\* otherwise returns once the whole body has been read.
client_get ==
    /\ fetch.pc = "get"
    /\ fetch' = IF fetch.resp.status = "network_error"
                THEN [fetch EXCEPT !.pc = "raised",
                                   !.result = FetchResult(FALSE, "network", 0)]
                ELSE [fetch EXCEPT !.pc = "status", !.received = fetch.resp.size]
    /\ UNCHANGED <<session_vars, config_vars, call>>

\* response.raise_for_status()
fetch_raise_for_status ==
    /\ fetch.pc = "status"
    /\ fetch' = IF raise_for_status(fetch.resp)
                THEN [fetch EXCEPT !.pc = "raised",
                                   !.result = FetchResult(FALSE, "http_status", 0)]
                ELSE [fetch EXCEPT !.pc = "declared"]
    /\ UNCHANGED <<session_vars, config_vars, call>>

\* The Content-Length check.
fetch_check_declared ==
    /\ fetch.pc = "declared"
    /\ fetch' = IF declared_too_large(fetch.resp)
                THEN [fetch EXCEPT !.pc = "raised",
                                   !.result = FetchResult(FALSE, "too_large", 0)]
                ELSE [fetch EXCEPT !.pc = "content"]
    /\ UNCHANGED <<session_vars, config_vars, call>>

\* The check of len(response.content), then the return.
fetch_check_received ==
    /\ fetch.pc = "content"
    /\ fetch' = IF received_too_large(fetch.resp)
                THEN [fetch EXCEPT !.pc = "raised",
                                   !.result = FetchResult(FALSE, "too_large", 0)]
                ELSE [fetch EXCEPT !.pc = "returned",
                                   !.result = FetchResult(TRUE, "", fetch.resp.size)]
    /\ UNCHANGED <<session_vars, config_vars, call>>

\* ------------------------------------------------------------ one split, step by step
\* The texts split: every string of at most MaxTextLen characters over two
\* letters and the newline, with every limit from 1 to MaxLimit.
MaxTextLen == 7

MaxLimit == 4

SplitChars == {"a", "b", Newline}

SplitTexts == UNION {[1..n -> SplitChars] : n \in 0..MaxTextLen}

SplitInit ==
    /\ SessionInit
    /\ OCR_AVAILABLE = TRUE
    /\ OPENROUTER_API_KEY = TRUE
    /\ fetch = NoFetch
    /\ \E text \in SplitTexts, limit \in 1..MaxLimit :
          call = [fn |-> "split", text |-> text, limit |-> limit,
                  pc |-> "call", chunks |-> <<>>]

\* chunks = split_telegram_message(text, limit)
split_call ==
    /\ call.fn = "split"
    /\ call.pc = "call"
    /\ call' = [call EXCEPT !.pc = "returned",
                            !.chunks = split_telegram_message(call.text, call.limit)]
    /\ UNCHANGED <<session_vars, config_vars, fetch>>

\* ------------------------------------------------------------ one truncation, twice
\* The contents truncated: every string of at most MaxContentLen characters
\* over two letters and the newline, with every limit up to MaxTruncateLimit.
MaxContentLen == 4

MaxTruncateLimit == 4

TruncateContents == UNION {[1..n -> SplitChars] : n \in 0..MaxContentLen}

TruncateInit ==
    /\ SessionInit
    /\ OCR_AVAILABLE = TRUE
    /\ OPENROUTER_API_KEY = TRUE
    /\ fetch = NoFetch
    /\ \E content \in TruncateContents, limit \in 0..MaxTruncateLimit :
          call = [fn |-> "truncate", content |-> content, limit |-> limit,
                  pc |-> "call", once |-> <<>>, twice |-> <<>>]

\* once = truncate_content(content, limit)
truncate_call ==
    /\ call.fn = "truncate"
    /\ call.pc = "call"
    /\ call' = [call EXCEPT !.pc = "again",
                            !.once = truncate_content(call.content, call.limit)]
    /\ UNCHANGED <<session_vars, config_vars, fetch>>

\* twice = truncate_content(once, limit)
truncate_again ==
    /\ call.fn = "truncate"
    /\ call.pc = "again"
    /\ call' = [call EXCEPT !.pc = "returned",
                            !.twice = truncate_content(call.once, call.limit)]
    /\ UNCHANGED <<session_vars, config_vars, fetch>>

\* ------------------------------------------------------------ specifications
Next ==
    \/ handle_text_no_text
    \/ handle_text_url
    \/ handle_text_no_page
    \/ handle_text_blank
    \/ handle_text_question
    \/ fetch_page_error
    \/ fetch_page_ok
    \/ inline_stylesheets_skip
    \/ inline_stylesheets_fail
    \/ inline_stylesheets_ok
    \/ inline_stylesheets_done
    \/ inline_images_skip
    \/ inline_images_cached
    \/ inline_images_fail
    \/ inline_images_fetched
    \/ fetch_page_assets_return
    \/ handle_text_deliver
    \/ send_ai_answer_no_key
    \/ ask_minimax_post
    \/ ask_minimax_error
    \/ ask_minimax_empty
    \/ ask_minimax_answer

Spec == Init /\ [][Next]_vars

FetchNext ==
    \/ client_get
    \/ fetch_raise_for_status
    \/ fetch_check_declared
    \/ fetch_check_received

FetchSpec == FetchInit /\ [][FetchNext]_vars

SplitNext == split_call

SplitSpec == SplitInit /\ [][SplitNext]_vars

TruncateNext ==
    \/ truncate_call
    \/ truncate_again

TruncateSpec == TruncateInit /\ [][TruncateNext]_vars

\* ------------------------------------------------------------ properties
stored_history == IF user_data.minimax_messages = <<>> THEN <<>>
                  ELSE user_data.minimax_messages[1]

last_event == IF out = <<>> THEN Event("none", "none", <<>>) ELSE out[Len(out)]

\* C1: whatever exchanges have been recorded, the stored history has at
\* most MAX_MINIMAX_HISTORY entries and its first entry is the system message.
C1_HistoryBounded ==
    user_data.minimax_messages # <<>> =>
        /\ Len(stored_history) >= 1
        /\ Len(stored_history) <= MAX_MINIMAX_HISTORY
        /\ stored_history[1].role = "system"

\* A history that has been trimmed twice: five exchanges were recorded.
C1_Witness ==
    /\ asked = 5
    /\ Len(stored_history) = MAX_MINIMAX_HISTORY

\* Every user message of `messages` was built from the stored last capture.
built_from_last_capture(messages) ==
    \A k \in 1..Len(messages) :
        messages[k].role = "user" =>
            /\ user_data.last_assets # <<>>
            /\ messages[k].page = <<UserContext(OCR_AVAILABLE, user_data.last_assets[1])>>

\* C2: storing a capture clears the stored history, and in every state the
\* user messages of the stored history and of the request sent to the model
\* were built from the page stored as last_assets.
C2_NoStaleContext ==
    /\ [](/\ built_from_last_capture(stored_history)
          /\ request # <<>> => built_from_last_capture(request[1]))
    /\ [][pc = "deliver" => user_data'.minimax_messages = <<>>]_vars

\* A capture of another page is about to be stored while the session holds
\* a history about the previous page.
C2_Witness ==
    /\ pc = "deliver"
    /\ \E k \in 1..Len(stored_history) : stored_history[k].role = "user"
    /\ frame.assets # user_data.last_assets
    /\ frame.assets[1].final_url # user_data.last_assets[1].final_url

\* The fetches of `kind` the running capture made for `url`.
fetches_of(kind, url) ==
    {k \in 1..Len(frame.log) : frame.log[k].kind = kind /\ frame.log[k].url = url}

\* C3: within one capture each distinct image URL is fetched at most once,
\* whatever the outcome of the fetch.
C3_ImageFetchedOnce ==
    \A k \in 1..Len(frame.log) :
        frame.log[k].kind = "binary" =>
            Cardinality(fetches_of("binary", frame.log[k].url)) <= 1

\* C4: within one capture the stylesheet links that resolve to one URL
\* trigger exactly one fetch of it.
C4_StylesheetFetchedOnce ==
    \A k \in 1..Len(frame.log) :
        frame.log[k].kind = "text" =>
            Cardinality(fetches_of("text", frame.log[k].url)) = 1

\* C5: building the request changes neither the stored history nor the
\* stored page, and a model call that fails (transport or HTTP error, or
\* empty content) leaves both as they were before the question.
C5_FailedAskKeepsSession ==
    [][(\/ pc = "ask"
        \/ pc = "post" /\ out' = Append(out, Event("edit_text", "model_error", <<>>)))
       => user_data' = user_data]_vars

\* A question about a page with recorded exchanges has just failed.
C5_Witness ==
    /\ pc = "idle"
    /\ last_event = Event("edit_text", "model_error", <<>>)
    /\ Len(stored_history) >= 3
    /\ request # <<>>
    /\ Len(request[1]) = Len(stored_history) + 1

capturing == pc \in {"stylesheets", "images"}

\* A step of the rewriting loops or the return of fetch_page_assets.
capture_step ==
    \/ inline_stylesheets_skip \/ inline_stylesheets_fail \/ inline_stylesheets_ok
    \/ inline_stylesheets_done
    \/ inline_images_skip \/ inline_images_cached \/ inline_images_fail
    \/ inline_images_fetched
    \/ fetch_page_assets_return

\* The element the fetch of log entry e was made for is as it was parsed.
kept_original(nodes, e) == nodes[e.at] = frame.soup[e.at]

\* The element the fetch of log entry e was made for has been inlined.
was_inlined(nodes, e) ==
    /\ nodes[e.at].data_source = <<e.url>>
    /\ IF e.kind = "text" THEN nodes[e.at].tag = "style"
       ELSE /\ nodes[e.at].tag = "img"
            /\ nodes[e.at].ref.kind = "data"
            /\ ~nodes[e.at].srcset

\* C6: a failing stylesheet or image fetch never aborts the capture: the
\* capture goes on (it can always take a step, and each step moves a loop
\* forward or ends it) until it returns a PageAssets, the element whose
\* fetch failed keeps its original reference, and the others are inlined.
C6_AssetFailureIsSkipped ==
    /\ [](\A k \in 1..Len(frame.log) :
             IF frame.log[k].ok THEN was_inlined(frame.inlined_soup, frame.log[k])
             ELSE kept_original(frame.inlined_soup, frame.log[k]))
    /\ [](pc = "deliver" =>
             /\ frame.assets # <<>>
             /\ frame.assets[1].html.nodes = frame.inlined_soup)
    /\ [](capturing => ENABLED capture_step)
    /\ [][capturing => (/\ pc' \in {"stylesheets", "images", "deliver"}
                        /\ pc' = pc => frame'.i > frame.i
                        /\ pc' # pc => (pc = "stylesheets" => pc' = "images")
                        /\ Len(frame'.log) >= Len(frame.log))]_vars

\* A capture returns after a stylesheet fetch failed, an image fetch failed
\* and another asset was inlined.
C6_Witness ==
    /\ pc = "deliver"
    /\ \E k \in 1..Len(frame.log) : frame.log[k].kind = "text" /\ ~frame.log[k].ok
    /\ \E k \in 1..Len(frame.log) : frame.log[k].kind = "binary" /\ ~frame.log[k].ok
    /\ \E k \in 1..Len(frame.log) : frame.log[k].ok

page_error_events ==
    <<Event("reply_text", "loading", <<>>), Event("edit_text", "page_error", <<>>)>>

\* C7: when the page fetch fails the call ends with the error shown to the
\* user, no file sent, no request posted to the model, and the stored page
\* and history unchanged.
C7_PageFailureKeepsSession ==
    [][(pc = "fetch_page" /\ pc' # "stylesheets") =>
          /\ pc' = "idle"
          /\ out' = page_error_events
          /\ request' = <<>>
          /\ completion' = <<>>
          /\ user_data' = user_data]_vars

\* A page fetch has just failed in a session that holds a page and a history.
C7_Witness ==
    /\ pc = "idle"
    /\ out = page_error_events
    /\ user_data.last_assets # <<>>
    /\ Len(stored_history) >= 3

\* C8: a page whose received size is above the ceiling never yields a
\* PageAssets.
C8_PageSizeCeiling ==
    frame.assets # <<>> => frame.page_size <= MAX_ASSET_SIZE

\* The server declared a parseable Content-Length above the ceiling.
declares_above_ceiling ==
    /\ fetch.resp.status = "200"
    /\ fetch.declared.form \in {"number", "padded", "plus"}
    /\ fetch.declared.n > MAX_ASSET_SIZE

\* C9: when an image response declares a content-length above the ceiling,
\* the fetch fails as too large and no byte of the body is received.
C9_RejectedBeforeBody ==
    (fetch.kind = "binary" /\ declares_above_ceiling) =>
        /\ fetch.received = 0
        /\ fetch.pc = "raised" => fetch.result.error = "too_large"

fetch_finished == fetch.pc \in {"returned", "raised"}

\* C10: a text or binary fetch of a 200 response fails exactly when a
\* present, parseable declared content-length or the received byte count is
\* strictly above the ceiling (an unparseable or empty header is ignored),
\* so nothing above the ceiling is returned for inlining.
C10_SizeCeiling ==
    /\ (fetch_finished /\ fetch.resp.status = "200") =>
          /\ fetch.result.ok <=>
                (~declares_above_ceiling /\ fetch.resp.size <= MAX_ASSET_SIZE)
          /\ ~fetch.result.ok => fetch.result.error = "too_large"
    /\ (fetch.pc = "returned") =>
          /\ fetch.result.ok
          /\ fetch.result.size = fetch.resp.size
          /\ fetch.result.size <= MAX_ASSET_SIZE
    /\ fetch_finished =>
          fetch.result = IF fetch.kind = "text" THEN fetch_text_asset(fetch.resp)
                         ELSE fetch_binary_asset(fetch.resp)

\* A fetch returned with the declared and the received size at the ceiling.
C10_Witness ==
    /\ fetch.pc = "returned"
    /\ fetch.declared = [form |-> "number", n |-> MAX_ASSET_SIZE]
    /\ fetch.resp.size = MAX_ASSET_SIZE

\* ------------------------------------------------------------ output chunker
split_returned == call.fn = "split" /\ call.pc = "returned"

has_separator(s) == \E i \in 1..(Len(s) - 1) : s[i] = Newline /\ s[i + 1] = Newline

\* C11: for every text and every limit of at least 1, each segment that
\* split_telegram_message returns has at most limit characters, the packed
\* segments with their "\n\n" separators and the hard slices alike.
C11_SegmentsWithinLimit ==
    split_returned =>
        \A k \in 1..Len(call.chunks) : Len(call.chunks[k]) <= call.limit

\* A split that returned a packed segment of exactly limit characters with a
\* separator inside, followed by the hard slices of a longer paragraph.
C11_Witness ==
    /\ split_returned
    /\ Len(call.text) > call.limit
    /\ \E j \in 1..(Len(call.chunks) - 2) :
          /\ has_separator(call.chunks[j])
          /\ Len(call.chunks[j]) = call.limit
          /\ Len(call.chunks[j + 1]) = call.limit
          /\ ~has_separator(call.chunks[j + 1] \o call.chunks[j + 2])
          /\ Len(call.chunks[j + 1] \o call.chunks[j + 2]) > call.limit

\* The paragraphs read from the segments in order.
RECURSIVE paragraphs_of(_)
paragraphs_of(chunks) ==
    IF chunks = <<>> THEN <<>>
    ELSE str_split(Head(chunks)) \o paragraphs_of(Tail(chunks))

\* A paragraph cut into consecutive pieces of limit characters, the last one
\* shorter when the length is no multiple of limit.
pieces(paragraph, limit) ==
    [k \in 1..((Len(paragraph) + limit - 1) \div limit) |->
        SubSeq(paragraph, (k - 1) * limit + 1,
               IF k * limit < Len(paragraph) THEN k * limit ELSE Len(paragraph))]

\* The paragraphs with each one longer than limit replaced by its pieces.
RECURSIVE sliced(_, _)
sliced(paragraphs, limit) ==
    IF paragraphs = <<>> THEN <<>>
    ELSE (IF Len(Head(paragraphs)) > limit THEN pieces(Head(paragraphs), limit)
          ELSE <<Head(paragraphs)>>)
         \o sliced(Tail(paragraphs), limit)

starts_with(s, prefix) == Len(prefix) <= Len(s) /\ SubSeq(s, 1, Len(prefix)) = prefix

\* text is the segments in order with, between one segment and the next,
\* either nothing or one "\n\n".
RECURSIVE recovers(_, _)
recovers(chunks, text) ==
    IF chunks = <<>> THEN text = <<>>
    ELSE /\ starts_with(text, Head(chunks))
         /\ LET rest == SubSeq(text, Len(Head(chunks)) + 1, Len(text))
            IN IF Tail(chunks) = <<>> THEN rest = <<>>
               ELSE \/ recovers(Tail(chunks), rest)
                    \/ /\ starts_with(rest, <<Newline, Newline>>)
                       /\ recovers(Tail(chunks), SubSeq(rest, 3, Len(rest)))

\* C12: for every text and every limit of at least 1 the split loses and
\* reorders nothing: the paragraphs read from the segments in order are the
\* paragraphs of the text, each paragraph longer than limit standing as its
\* consecutive pieces, and the segments in order give the text back once
\* the "\n\n" dropped between segments are put back.
C12_SplitLosesNothing ==
    split_returned =>
        /\ paragraphs_of(call.chunks) = sliced(str_split(call.text), call.limit)
        /\ recovers(call.chunks, call.text)

\* A split into a packed segment, a hard-sliced paragraph and a last segment,
\* where the letters differ so that a reordering would show.
C12_Witness ==
    /\ split_returned
    /\ Len(call.chunks) >= 3
    /\ \E j \in 1..Len(call.chunks) : has_separator(call.chunks[j])
    /\ \E p \in 1..Len(str_split(call.text)) : Len(str_split(call.text)[p]) > call.limit
    /\ \E i, j \in 1..Len(call.text) : {call.text[i], call.text[j]} = {"a", "b"}

\* ------------------------------------------------------------ truncate_content
\* C13: truncating twice with one limit gives what truncating once gives,
\* also when the content was longer than the limit and the first result,
\* with the marker after the kept characters, is longer than the limit.
C13_TruncateIdempotent ==
    (call.fn = "truncate" /\ call.pc = "returned") => call.twice = call.once

\* A content longer than the limit was truncated twice; the first result
\* ends with the marker and is longer than the limit.
C13_Witness ==
    /\ call.fn = "truncate"
    /\ call.pc = "returned"
    /\ call.limit >= 1
    /\ Len(call.content) > call.limit
    /\ Len(call.once) > call.limit
    /\ call.once # call.content
    /\ SubSeq(call.once, Len(call.once) - 11, Len(call.once) - 1)
         = <<"(", "t", "r", "u", "n", "c", "a", "t", "e", "d", ")">>

\* ------------------------------------------------------------ first question
\* C14: a question asked after a successful capture, while no exchange has
\* been recorded for it, is posted as a request of exactly two entries: the
\* system message, then the new user message, which carries the context of
\* the captured page and the question.
C14_FirstRequestHasTwoEntries ==
    (pc = "post" /\ asked = 0) =>
        /\ stored_history = <<>>
        /\ request # <<>>
        /\ Len(request[1]) = 2
        /\ request[1][1] = SystemMessage
        /\ request[1][2].role = "user"
        /\ request[1][2].qid = 1
        /\ request[1][2].page = <<UserContext(OCR_AVAILABLE, user_data.last_assets[1])>>

\* The question sent along with the link of page 2 has been posted, after
\* the files of that capture were delivered.
C14_Witness ==
    /\ pc = "post"
    /\ asked = 0
    /\ Len(request[1]) = 2
    /\ frame.kind = "url"
    /\ \E k \in 1..Len(out) : out[k].what = "page.html"
    /\ user_data.last_assets[1].final_url = Pages[2].final_url

\* ------------------------------------------------------------ empty content
\* A reply of status 200 whose message content is missing or has no character.
reply_has_no_content(reply) ==
    /\ reply.status = "ok"
    /\ \/ reply.ctype = "missing"
       \/ \A k \in 1..Len(reply.parts) : reply.parts[k] = <<>>

\* C15: when the model's reply has empty or missing content the question
\* fails: the error is shown to the user once, no answer segment is
\* delivered and no exchange is recorded.
C15_EmptyContentIsAnError ==
    [][(pc = "post" /\ completion' # <<>> /\ reply_has_no_content(completion'[1])) =>
          /\ pc' = "idle"
          /\ out' = Append(out, Event("edit_text", "model_error", <<>>))
          /\ Cardinality({k \in 1..Len(out') : out'[k].what = "model_error"}) = 1
          /\ \A k \in 1..Len(out') : out'[k].what # "answer"
          /\ user_data' = user_data
          /\ asked' = asked]_vars

\* A reply without content has just failed a question in a session that
\* holds an earlier exchange.
C15_Witness ==
    /\ pc = "idle"
    /\ completion # <<>>
    /\ reply_has_no_content(completion[1])
    /\ last_event = Event("edit_text", "model_error", <<>>)
    /\ Len(stored_history) = 3
    /\ asked = 1

\* ------------------------------------------------------------ OCR disclaimer
\* The captures at hand: the one being delivered or asked about and the
\* stored one.
captures == {frame.assets[k] : k \in 1..Len(frame.assets)}
            \cup {user_data.last_assets[k] : k \in 1..Len(user_data.last_assets)}

\* The page contexts of the user messages of the posted request.
posted_contexts ==
    IF request = <<>> THEN {}
    ELSE {request[1][k].page[1] : k \in {j \in 1..Len(request[1]) : request[1][j].role = "user"}}

resolved_url == Pages[frame.page].final_url

\* The URLs asked for that redirect elsewhere.
redirected_urls == {Pages[p].url : p \in {q \in PageIds : Pages[q].url # Pages[q].final_url}}

\* C17: final_url of a capture is the URL the redirects ended at; the
\* provenance of the HTML file and of the text file and the base every
\* stylesheet and image reference is resolved against are that URL, never
\* the URL asked for.
C17_ResolvedUrlEverywhere ==
    /\ (frame.kind = "url" /\ pc # "fetch_page") =>
          /\ frame.final_url = resolved_url
          /\ \A k \in 1..Len(frame.log) : frame.log[k].url.base = resolved_url
          /\ \A k \in 1..Len(frame.inlined_soup) :
                frame.inlined_soup[k].data_source # <<>> =>
                    frame.inlined_soup[k].data_source[1].base = resolved_url
          /\ \A k \in 1..Len(frame.summaries) :
                frame.summaries[k].source_url.base = resolved_url
          /\ \A k \in 1..Len(frame.assets) : frame.assets[k].final_url = resolved_url
    /\ \A a \in captures :
          /\ a.html.source = a.final_url
          /\ a.text.source = a.final_url
          /\ a.final_url \notin redirected_urls
          /\ \A k \in 1..Len(a.images) : a.images[k].source_url.base = a.final_url
          /\ \A k \in 1..Len(a.html.nodes) :
                a.html.nodes[k].data_source # <<>> =>
                    a.html.nodes[k].data_source[1].base = a.final_url

\* The capture of the redirecting page is ready with a stylesheet and an
\* image inlined.
C17_Witness ==
    /\ pc = "deliver"
    /\ Pages[frame.page].url # Pages[frame.page].final_url
    /\ frame.assets[1].final_url = "https://example.com/a/"
    /\ \E k \in 1..Len(frame.log) : frame.log[k].kind = "text" /\ frame.log[k].ok
    /\ \E k \in 1..Len(frame.log) : frame.log[k].kind = "binary" /\ frame.log[k].ok

\* ------------------------------------------------------------ recorded exchanges
\* An exchange is recorded in this step.
records_exchange == pc = "post" /\ asked' = asked + 1

\* The history the exchange is added to, and that history with the user
\* message posted and the assistant message stored after it.
history_before == IF stored_history = <<>> THEN <<SystemMessage>> ELSE stored_history

history_extended ==
    history_before \o <<frame.user_message[1], stored_history'[Len(stored_history')]>>

\* C18: when recording an exchange makes the history longer than 8 entries,
\* what is stored is the system message followed by the most recent 7 other
\* messages in their order; otherwise no message is dropped; either way the
\* user and the assistant message just recorded are the last two entries,
\* in that order.
C18_TrimKeepsMostRecent ==
    [][records_exchange =>
          /\ Len(stored_history') >= 3
          /\ stored_history'[Len(stored_history') - 1] = frame.user_message[1]
          /\ stored_history'[Len(stored_history')].role = "assistant"
          /\ stored_history'[Len(stored_history')].qid = frame.user_message[1].qid
          /\ IF Len(history_extended) > MAX_MINIMAX_HISTORY
             THEN /\ Len(stored_history') = MAX_MINIMAX_HISTORY
                  /\ stored_history'[1] = SystemMessage
                  /\ \A k \in 2..MAX_MINIMAX_HISTORY :
                        stored_history'[k] =
                            history_extended[Len(history_extended) - MAX_MINIMAX_HISTORY + k]
             ELSE stored_history' = history_extended]_vars

\* The fifth exchange has been recorded on a full history: the oldest two
\* of its messages were dropped.
C18_Witness ==
    /\ pc = "idle"
    /\ asked = 5
    /\ Len(stored_history) = MAX_MINIMAX_HISTORY
    /\ stored_history[2].role = "assistant"
    /\ stored_history[2].qid = 2
    /\ stored_history[MAX_MINIMAX_HISTORY - 1].role = "user"
    /\ stored_history[MAX_MINIMAX_HISTORY].qid = 5

RECURSIVE inlined_images(_)
inlined_images(nodes) ==
    IF nodes = <<>> THEN <<>>
    ELSE (IF Head(nodes).tag = "img" /\ Head(nodes).data_source # <<>>
          THEN <<Head(nodes)>> ELSE <<>>)
         \o inlined_images(Tail(nodes))

alternates(messages) ==
    /\ \A k \in 2..Len(messages) : messages[k].role \in {"user", "assistant"}
    /\ \A k \in 2..(Len(messages) - 1) : messages[k].role # messages[k + 1].role

\* C20 as claimed: the stored history is the system message followed by
\* whole exchanges, so the message after the system message is a user
\* message, the roles alternate, and no request posted starts its part
\* after the system message with an assistant message.
C20_WholeExchanges ==
    /\ stored_history # <<>> =>
          /\ stored_history[1] = SystemMessage
          /\ alternates(stored_history)
          /\ Len(stored_history) >= 2 => stored_history[2].role = "user"
    /\ request # <<>> => request[1][2].role = "user"

\* C20 amended: the stored history is the system message followed by
\* messages whose roles alternate and end with an assistant message; it
\* starts with a user message, and so holds whole exchanges, exactly while
\* it is shorter than 8 entries (at most 3 exchanges recorded); trimmed to
\* 8 entries it keeps 7 other messages, the first of them the assistant
\* message of a split exchange, and the request posted from it starts its
\* part after the system message with that assistant message.
C20_AlternatingRoles ==
    /\ stored_history # <<>> =>
          /\ stored_history[1] = SystemMessage
          /\ alternates(stored_history)
          /\ stored_history[Len(stored_history)].role = "assistant"
          /\ stored_history[2].role = "user"
                <=> Len(stored_history) < MAX_MINIMAX_HISTORY
    /\ request # <<>> =>
          /\ request[1][1] = SystemMessage
          /\ alternates(request[1])
          /\ request[1][Len(request[1])].role = "user"
          /\ request[1][2].role = "user" <=> Len(request[1]) <= MAX_MINIMAX_HISTORY

\* The fifth question is posted from a trimmed history: the request has 9
\* entries and an assistant message after the system message.
C20_Witness ==
    /\ pc = "post"
    /\ asked = 4
    /\ Len(stored_history) = MAX_MINIMAX_HISTORY
    /\ stored_history[2].role = "assistant"
    /\ Len(request[1]) = MAX_MINIMAX_HISTORY + 1
    /\ request[1][2] = stored_history[2]

\* ------------------------------------------------------------ empty messages
\* C21: for every text that is not empty and every limit of at least 1,
\* split_telegram_message returns at least one segment and no returned
\* segment is empty, also when the text begins with "\n\n" or has an empty
\* paragraph next to a paragraph longer than the limit.
C21_SegmentsNonEmpty ==
    (split_returned /\ call.text # <<>>) =>
        /\ Len(call.chunks) >= 1
        /\ \A k \in 1..Len(call.chunks) : call.chunks[k] # <<>>

\* C22: every assistant message in the stored history and every answer
\* handed to the transport has content that is not empty, whatever content
\* the model returned: empty, whitespace alone, a list of parts or text.
C22_AnswerNonEmpty ==
    /\ \A k \in 1..Len(stored_history) :
          stored_history[k].role = "assistant" => stored_history[k].text # <<>>
    /\ \A k \in 1..Len(out) : out[k].what = "answer" => out[k].text # <<>>

====
